---- MODULE Spec2Model ----
(***************************************************************************)
(* Model of the golf-course gateway (src/app.py, src/email_service.py):    *)
(* the cache-aside handlers get_course_coordinates and get_course_info,    *)
(* the direct cache endpoints, the process-wide database handle with its   *)
(* end-of-request teardown, the notifier send_course_email, and the two    *)
(* normalizers extract_green_centers and extract_pars.                     *)
(*                                                                         *)
(* JSON values are tagged records; JSON text is a sequence of lexical      *)
(* tokens, written by dumps and read back by loads (a parser that fails    *)
(* on malformed text).                                                     *)
(***************************************************************************)
EXTENDS Integers, Sequences, FiniteSets, TLC

(***************************************************************************)
(* Python / JSON values.                                                   *)
(***************************************************************************)
JNull == [t |-> "null"]
JNum(n) == [t |-> "num", n |-> n]
JStr(s) == [t |-> "str", s |-> s]
JBool(b) == [t |-> "bool", b |-> b]
JList(items) == [t |-> "list", items |-> items]
\* a dict keeps its keys in insertion order, as Python does
JObj(ks, vs) == [t |-> "obj", keys |-> ks, vals |-> vs]

\* a raised Python exception, as the outcome of an evaluation
Raise(name) == [t |-> "raise", s |-> name]
IsRaise(v) == v.t = "raise"

\* the strings that occur in payloads and texts
Strings ==
  {"", "c1", "c2", "courseID", "coordinates", "hole", "poi", "location",
   "latitude", "longitude", "parsMen", "parsWomen", "apiRequestsLeft",
   "msg", "rate limited", "42"}

\* the numbers that occur in payloads and texts
Nums == 0..20

IndexOf(seq, x) == CHOOSE i \in 1..Len(seq) : seq[i] = x
HasKey(o, k) == \E i \in 1..Len(o.keys) : o.keys[i] = k

\* dict.get(k, default)
DictGet(o, k, default) ==
  IF HasKey(o, k) THEN o.vals[IndexOf(o.keys, k)] ELSE default

\* d[k] = v : a new key is appended, an existing key keeps its position
\* an assignment that leaves a key already present as it is
DictSet_KeepFirst(o, k, v) ==
  IF HasKey(o, k) THEN o ELSE JObj(Append(o.keys, k), Append(o.vals, v))

DictSet(o, k, v) ==
  IF HasKey(o, k)
    THEN JObj(o.keys, [o.vals EXCEPT ![IndexOf(o.keys, k)] = v])
    ELSE JObj(Append(o.keys, k), Append(o.vals, v))

\* Python truthiness of a JSON value
Truthy(v) ==
  CASE v.t = "null" -> FALSE
    [] v.t = "num" -> v.n # 0
    [] v.t = "str" -> v.s # ""
    [] v.t = "list" -> Len(v.items) > 0
    [] v.t = "obj" -> Len(v.keys) > 0
    [] v.t = "bool" -> v.b
    [] OTHER -> TRUE

(***************************************************************************)
(* JSON text: json.dumps and json.loads.                                   *)
(***************************************************************************)
Quote(s) == "\"" \o s \o "\""
\* the string and number literals, and the value each one denotes
StrToks == {Quote(s) : s \in Strings}
NumToks == {ToString(n) : n \in Nums}
StrOfToks == [tk \in StrToks |-> CHOOSE s \in Strings : Quote(s) = tk]
NumOfToks == [tk \in NumToks |-> CHOOSE n \in Nums : ToString(n) = tk]
IsStrTok(tk) == tk \in StrToks
StrOfTok(tk) == StrOfToks[tk]
IsNumTok(tk) == tk \in NumToks
NumOfTok(tk) == NumOfToks[tk]

RECURSIVE dumps(_)
RECURSIVE DumpItems(_, _)
RECURSIVE DumpMembers(_, _, _)
DumpItems(items, i) ==
  IF i > Len(items) THEN <<>>
  ELSE (IF i > 1 THEN <<",">> ELSE <<>>) \o dumps(items[i])
         \o DumpItems(items, i + 1)
DumpMembers(ks, vs, i) ==
  IF i > Len(ks) THEN <<>>
  ELSE (IF i > 1 THEN <<",">> ELSE <<>>) \o <<Quote(ks[i]), ":">>
         \o dumps(vs[i]) \o DumpMembers(ks, vs, i + 1)
dumps(v) ==
  CASE v.t = "null" -> <<"null">>
    [] v.t = "num" -> <<ToString(v.n)>>
    [] v.t = "str" -> <<Quote(v.s)>>
    [] v.t = "list" -> <<"[">> \o DumpItems(v.items, 1) \o <<"]">>
    [] v.t = "obj" -> <<"{">> \o DumpMembers(v.keys, v.vals, 1) \o <<"}">>

ParseOk(v, next) == [ok |-> TRUE, v |-> v, next |-> next]
ParseFail == [ok |-> FALSE, v |-> JNull, next |-> 0]
TokAt(toks, i) == IF i <= Len(toks) THEN toks[i] ELSE "<eof>"

RECURSIVE ParseValue(_, _)
RECURSIVE ParseElems(_, _, _)
RECURSIVE ParseMembers(_, _, _)
ParseElems(toks, i, acc) ==
  LET r == ParseValue(toks, i) IN
  IF ~r.ok THEN ParseFail
  ELSE IF TokAt(toks, r.next) = ","
         THEN ParseElems(toks, r.next + 1, Append(acc, r.v))
  ELSE IF TokAt(toks, r.next) = "]"
         THEN ParseOk(JList(Append(acc, r.v)), r.next + 1)
  ELSE ParseFail
ParseMembers(toks, i, acc) ==
  IF ~(IsStrTok(TokAt(toks, i)) /\ TokAt(toks, i + 1) = ":") THEN ParseFail
  ELSE LET r == ParseValue(toks, i + 2) IN
    IF ~r.ok THEN ParseFail
    ELSE LET acc2 == DictSet(acc, StrOfTok(toks[i]), r.v) IN
      IF TokAt(toks, r.next) = "," THEN ParseMembers(toks, r.next + 1, acc2)
      ELSE IF TokAt(toks, r.next) = "}" THEN ParseOk(acc2, r.next + 1)
      ELSE ParseFail
ParseValue(toks, i) ==
  LET tk == TokAt(toks, i) IN
  CASE tk = "null" -> ParseOk(JNull, i + 1)
    [] IsNumTok(tk) -> ParseOk(JNum(NumOfTok(tk)), i + 1)
    [] IsStrTok(tk) -> ParseOk(JStr(StrOfTok(tk)), i + 1)
    [] tk = "[" ->
         IF TokAt(toks, i + 1) = "]" THEN ParseOk(JList(<<>>), i + 2)
         ELSE ParseElems(toks, i + 1, <<>>)
    [] tk = "{" ->
         IF TokAt(toks, i + 1) = "}" THEN ParseOk(JObj(<<>>, <<>>), i + 2)
         ELSE ParseMembers(toks, i + 1, JObj(<<>>, <<>>))
    [] OTHER -> ParseFail

\* json.loads: the value, or json.JSONDecodeError
loads(text) ==
  LET r == ParseValue(text, 1) IN
  IF r.ok /\ r.next = Len(text) + 1 THEN r.v ELSE Raise("JSONDecodeError")

(***************************************************************************)
(* Normalizers: extract_green_centers and extract_pars.                    *)
(***************************************************************************)
\* Python's order on str, on the strings of the model
StringsSorted ==
  <<"", "42", "apiRequestsLeft", "c1", "c2", "coordinates", "courseID",
    "hole", "latitude", "location", "longitude", "msg", "parsMen",
    "parsWomen", "poi", "rate limited">>

\* a < b for two values of the same sortable type (int or str)
PyLess(a, b) ==
  IF a.t = "num" THEN a.n < b.n
  ELSE IndexOf(StringsSorted, a.s) < IndexOf(StringsSorted, b.s)

\* 'coordinates' in s, for a str s of the model: substring test
StrContainsCoordinates(s) == s = "coordinates"

\* x in data, for the operand types Python accepts
PyContains(data, k) ==
  CASE data.t = "obj" -> HasKey(data, k)
    [] data.t = "list" ->
         \E i \in 1..Len(data.items) : data.items[i] = JStr(k)
    [] data.t = "str" -> StrContainsCoordinates(data.s)
    [] OTHER -> FALSE

\* holes_data so far: keys in insertion order and the hole entries
HolesAcc(hk, hv) == [t |-> "acc", hk |-> hk, hv |-> hv]
Hashable(v) == v.t \in {"null", "num", "str"}
LatLong(coord) ==
  JObj(<<"latitude", "longitude">>,
       <<DictGet(coord, "latitude", JNull), DictGet(coord, "longitude", JNull)>>)
GreenField(location) ==
  CASE location = JNum(1) -> "frontOfGreen"
    [] location = JNum(2) -> "centerOfGreen"
    [] location = JNum(3) -> "backOfGreen"

\* the body of the loop over the coordinate entries (app.py 323-350)
RECURSIVE GreenLoop(_, _, _)
GreenLoop(items, i, acc) ==
  IF i > Len(items) THEN acc
  ELSE LET coord == items[i] IN
    IF coord.t # "obj" THEN Raise("AttributeError")
    ELSE IF ~(DictGet(coord, "poi", JNull) = JNum(1)
              /\ DictGet(coord, "location", JNull) \in {JNum(1), JNum(2), JNum(3)})
      THEN GreenLoop(items, i + 1, acc)
    ELSE LET hole_number == DictGet(coord, "hole", JNull)
             location == DictGet(coord, "location", JNull)
         IN IF ~Hashable(hole_number) THEN Raise("TypeError")
            ELSE LET known == \E j \in 1..Len(acc.hk) : acc.hk[j] = hole_number
                     hk2 == IF known THEN acc.hk ELSE Append(acc.hk, hole_number)
                     hv1 == IF known THEN acc.hv
                            ELSE Append(acc.hv, JObj(<<"holeNumber">>, <<hole_number>>))
                     j == IndexOf(hk2, hole_number)
                     hv2 == [hv1 EXCEPT ![j] =
                               DictSet(hv1[j], GreenField(location), LatLong(coord))]
                 IN GreenLoop(items, i + 1, HolesAcc(hk2, hv2))

\* sorted(holes_data.keys()) raises on keys of mixed types
Sortable(hk) ==
  \/ Len(hk) <= 1
  \/ \A i \in 1..Len(hk) : hk[i].t = "num"
  \/ \A i \in 1..Len(hk) : hk[i].t = "str"

\* the hole entries in the order of insertion, without sorted()
SortedHoles_Unsorted(acc, todo) == [i \in 1..Len(acc.hv) |-> acc.hv[i]]

\* [holes_data[hole] for hole in sorted(holes_data.keys())]
RECURSIVE SortedHoles(_, _)
SortedHoles(acc, todo) ==
  IF todo = {} THEN <<>>
  ELSE LET m == CHOOSE j \in todo :
                  \A k \in todo \ {j} : PyLess(acc.hk[j], acc.hk[k])
       IN <<acc.hv[m]>> \o SortedHoles(acc, todo \ {m})

\* for coord in <value>: the list of the values iterated, or the exception
IterItems(v) ==
  CASE v.t = "list" -> v
    [] v.t = "str" -> JList([i \in 1..(IF v.s = "" THEN 0 ELSE 1) |-> JStr(v.s)])
    [] v.t = "obj" -> JList([i \in 1..Len(v.keys) |-> JStr(v.keys[i])])
    [] OTHER -> Raise("TypeError")

InvalidCourseData ==
  JObj(<<"error", "holes">>, <<JStr("Invalid course data format"), JList(<<>>)>>)

extract_green_centers(coordinates_data) ==
  IF ~Truthy(coordinates_data) THEN InvalidCourseData
  ELSE IF coordinates_data.t = "num" THEN Raise("TypeError")
  ELSE IF ~PyContains(coordinates_data, "coordinates") THEN InvalidCourseData
  ELSE IF coordinates_data.t # "obj" THEN Raise("AttributeError")
  ELSE LET its == IterItems(DictGet(coordinates_data, "coordinates", JList(<<>>))) IN
    IF IsRaise(its) THEN its
    ELSE LET acc == GreenLoop(its.items, 1, HolesAcc(<<>>, <<>>)) IN
      IF IsRaise(acc) THEN acc
      ELSE IF ~Sortable(acc.hk) THEN Raise("TypeError")
      ELSE LET holes_list == SortedHoles(acc, 1..Len(acc.hk)) IN
        JObj(<<"courseID", "holes", "count">>,
             <<DictGet(coordinates_data, "courseID", JStr("")),
               JList(holes_list), JNum(Len(holes_list))>>)

InvalidInfoData == JObj(<<"error">>, <<JStr("Invalid course data format")>>)

extract_pars(info_data) ==
  IF ~Truthy(info_data) THEN InvalidInfoData
  ELSE IF info_data.t # "obj" THEN Raise("AttributeError")
  ELSE JObj(<<"courseID", "parsMen", "parsWomen">>,
            <<DictGet(info_data, "courseID", JStr("")),
              DictGet(info_data, "parsMen", JList(<<>>)),
              DictGet(info_data, "parsWomen", JList(<<>>))>>)

(***************************************************************************)
(* Bounds and inputs.                                                      *)
(***************************************************************************)
\* number of HTTP requests served in a behaviour
NumReqs == 2
Reqs == 1..NumReqs

\* course ids requested
Courses == {"c1"}
COURSES == <<[courseId |-> "c1", courseName |-> "Pebble"]>>

Resolvers == {"coordinates", "info"}

\* a Python str holding raw text (a sequence of lexical tokens)
JText(toks) == [t |-> "text", text |-> toks]


GreenEntry(hole, location, lat, long) ==
  JObj(<<"hole", "poi", "location", "latitude", "longitude">>,
       <<JNum(hole), JNum(1), JNum(location), JNum(lat), JNum(long)>>)

CoordsA ==
  JObj(<<"courseID", "coordinates", "apiRequestsLeft">>,
       <<JStr("c1"), JList(<<GreenEntry(1, 2, 10, 20)>>), JStr("42")>>)
CoordsB ==
  JObj(<<"courseID", "coordinates">>,
       <<JStr("c1"), JList(<<GreenEntry(2, 1, 11, 12), GreenEntry(1, 3, 13, 14)>>)>>)
InfoA ==
  JObj(<<"courseID", "parsMen", "parsWomen", "apiRequestsLeft">>,
       <<JStr("c1"), JList(<<JNum(4), JNum(3)>>), JList(<<JNum(5), JNum(3)>>),
         JStr("42")>>)
EmptyObj == JObj(<<>>, <<>>)
RateLimited == JObj(<<"msg">>, <<JStr("rate limited")>>)

\* a text that is not JSON
Malformed == <<"{", Quote("courseID")>>

\* bodies the provider answers with under status 200, per route: a full
\* payload, a payload without the expected fields, a JSON value that is
\* not an object, a text that is not JSON
CoordinatesOkBodies ==
  {dumps(CoordsA), dumps(EmptyObj), dumps(JList(<<>>)), Malformed}
InfoOkBodies ==
  {dumps(InfoA), dumps(EmptyObj), dumps(JList(<<>>)), Malformed}
UpstreamOkBodies(route) ==
  IF route = "coordinates" THEN CoordinatesOkBodies ELSE InfoOkBodies

\* statuses and bodies the provider answers with on failure
UpstreamErrors ==
  {[status |-> 429, text |-> dumps(RateLimited)], [status |-> 404, text |-> <<>>]}

\* bodies a client posts to /cache, request.get_json(): no key and value,
\* a dict value, a str value that is not JSON text
PostedBody(k, v) == JObj(<<"key", "value">>, <<JStr(k), v>>)
PostedBodies ==
  {EmptyObj, PostedBody("coordinates_c1", CoordsB),
   PostedBody("coordinates_c1", JText(Malformed))}
\* keys a client reads from /cache
GetKeys == {"coordinates_c1"}

(***************************************************************************)
(* State.                                                                  *)
(***************************************************************************)
VARIABLES
  course_poi_cache,   \* table: set of rows [key, value, inserted_at]
  course_info_cache,  \* table: set of rows [key, value, inserted_at]
  now,                \* the database clock, NOW()
  GOLF_API_TOKEN,     \* the provider credential is configured
  conn_pool,          \* the process-wide handle: 0 (None) or a handle id
  closed,             \* the handles that have been closed
  pc,                 \* per request: position in its handler
  req,                \* per request: route and arguments
  conn,               \* per request: the handle get_db_connection returned
  data,               \* per request: the decoded provider payload
  resp,               \* per request: the HTTP response
  log,                \* per request: what the handler did and met (observation)
  mail,               \* per request: the arguments send_course_email got
  raw_payload,        \* a decoded payload handed to a normalizer
  normalizer,         \* the normalizer applied to it, "none" before
  normalized          \* what the normalizer returned or raised

vars ==
  <<course_poi_cache, course_info_cache, now, GOLF_API_TOKEN,
    conn_pool, closed, pc, req, conn, data, resp, log, mail,
    raw_payload, normalizer, normalized>>

envVars == <<GOLF_API_TOKEN>>
normVars == <<raw_payload, normalizer, normalized>>
serverVars ==
  <<course_poi_cache, course_info_cache, now, GOLF_API_TOKEN,
    conn_pool, closed, pc, req, conn, data, resp, log, mail>>
storeVars == <<course_poi_cache, course_info_cache, now>>

NoReq == [route |-> "none", course_id |-> "", key |-> "", value |-> JNull]
NoResp == [status |-> 0, body |-> JNull]
NoUpstream == [status |-> 0, text |-> <<>>]
\* cache: the outcome of the cache read; read: the row value it returned;
\* readAt: the database clock at the read; fetches: the provider calls made;
\* fetched: the outcome of the call; upstream: the status and body of a
\* failed call; puts: the write statements issued; wroteAt: the database
\* clock at the write the store executed; storeError: the operation on
\* which the store failed; mail: the outcome of send_course_email
NoLog ==
  [cache |-> "none", read |-> JNull, readAt |-> 0, fetches |-> 0,
   fetched |-> "none", upstream |-> NoUpstream, puts |-> 0, wroteAt |-> 0,
   storeError |-> "none", mail |-> "none"]
NoMail ==
  [course_id |-> "", course_name |-> "", course_data |-> JNull,
   data_type |-> "", api_requests_left |-> JNull]

\* what the value column holds and how psycopg2 hands it back
StoredStr(text) == [t |-> "stored", form |-> "str", text |-> text]
Row(key, value, ts) == [key |-> key, value |-> value, inserted_at |-> ts]

\* a row left by an earlier writer of the info table
LegacyInfoRow == Row("info_c1", StoredStr(Malformed), 0)

Init ==
  /\ course_poi_cache = {}
  /\ course_info_cache \in
       {{}, {LegacyInfoRow}}
  /\ GOLF_API_TOKEN \in BOOLEAN
  /\ now = 1
  /\ conn_pool = 0
  /\ closed = {}
  /\ pc = [r \in Reqs |-> "idle"]
  /\ req = [r \in Reqs |-> NoReq]
  /\ conn = [r \in Reqs |-> 0]
  /\ data = [r \in Reqs |-> JNull]
  /\ resp = [r \in Reqs |-> NoResp]
  /\ log = [r \in Reqs |-> NoLog]
  /\ mail = [r \in Reqs |-> NoMail]
  /\ raw_payload = JNull
  /\ normalizer = "none"
  /\ normalized = JNull

(***************************************************************************)
(* Responses and error handling.                                           *)
(***************************************************************************)
jsonify(body, status) == [t |-> "response", status |-> status, body |-> body]

ErrorBody(error) == JObj(<<"error">>, <<JStr(error)>>)
ErrorDetails(error, details) ==
  JObj(<<"error", "details">>, <<JStr(error), details>>)

DbErrors ==
  {"psycopg2.OperationalError", "psycopg2.InterfaceError", "psycopg2.DataError"}

\* a decorator that reports the error with the default status
db_error_handler_200(result) ==
  IF ~IsRaise(result) THEN result
  ELSE jsonify(ErrorDetails("Server error", JStr(result.s)), 200)

\* the decorator: the handler's response, or 500 for what it raised
db_error_handler(result) ==
  IF ~IsRaise(result) THEN result
  ELSE IF result.s \in DbErrors
    THEN jsonify(ErrorDetails("Database error", JStr(result.s)), 500)
    ELSE jsonify(ErrorDetails("Server error", JStr(result.s)), 500)

\* a key that leaves the kind out
CacheKey_NoKind(route, course_id) == "coordinates_" \o course_id

CacheKey(route, course_id) == route \o "_" \o course_id
Table(route) ==
  IF route = "info" THEN course_info_cache ELSE course_poi_cache
TableName(route) ==
  IF route = "info" THEN "course_info_cache" ELSE "course_poi_cache"
\* the kind labels of the two resolvers exchanged
DataType_Swapped(route) == IF route = "coordinates" THEN "Info" ELSE "POI"

DataType(route) == IF route = "coordinates" THEN "POI" ELSE "Info"
Normalize(route, v) ==
  IF route = "coordinates" THEN extract_green_centers(v) ELSE extract_pars(v)

\* cur.execute on the request's handle raises when the handle was closed
\* or the database fails
StoreError(r, envFail) ==
  IF conn[r] \in closed THEN Raise("psycopg2.InterfaceError")
  ELSE IF envFail THEN Raise("psycopg2.OperationalError")
  ELSE JNull

\* a cache read that finds no row
SelectRows_Miss(table, key) == {row \in table : FALSE}

\* SELECT value FROM <table> WHERE key = %s
SelectRows(table, key) == {row \in table : row.key = key}

\* a conflicting row is deleted and the new one is not inserted
Upsert_DeleteOnConflict(table, key, value, ts, setTs) ==
  IF \E row \in table : row.key = key THEN {row \in table : row.key # key}
  ELSE table \cup {Row(key, value, ts)}

\* INSERT ... ON CONFLICT (key) DO NOTHING
Upsert_DoNothing(table, key, value, ts, setTs) ==
  IF \E row \in table : row.key = key THEN table
  ELSE table \cup {Row(key, value, ts)}

\* INSERT into a table without the unique key
Upsert_Insert(table, key, value, ts, setTs) ==
  table \cup {Row(key, value, ts)}

\* INSERT ... ON CONFLICT (key) DO UPDATE SET value = %s [, inserted_at = NOW()]
Upsert(table, key, value, ts, setTs) ==
  IF \E row \in table : row.key = key
    THEN {IF row.key = key
            THEN Row(key, value, IF setTs THEN ts ELSE row.inserted_at)
            ELSE row : row \in table}
    ELSE table \cup {Row(key, value, ts)}

\* the value column is of a text type: it holds the text written to it
ColumnValue(text) == StoredStr(text)

\* row['value'] as psycopg2 returns it: a str
RowValue(stored) == JText(stored.text)

\* a hit that hands a value that is not JSON back as it is
HitResult_Lenient(route, row) ==
  LET value == RowValue(row.value)
      decoded == IF value.t = "text" THEN loads(value.text) ELSE value
  IN IF IsRaise(decoded) THEN jsonify(value, 200)
     ELSE LET processed_data == Normalize(route, decoded) IN
       IF IsRaise(processed_data) THEN processed_data
       ELSE jsonify(processed_data, 200)

\* app.py 160-169 / 244-253: decode the cached value and normalize it
HitResult(route, row) ==
  LET value == RowValue(row.value)
      decoded == IF value.t = "text" THEN loads(value.text) ELSE value
  IN IF IsRaise(decoded) THEN Raise("Invalid JSON data in cache")
     ELSE LET processed_data == Normalize(route, decoded) IN
       IF IsRaise(processed_data) THEN processed_data
       ELSE jsonify(processed_data, 200)

\* app.py 96-104: the direct cache read returns a non-JSON str as it is
CacheGetResult(key, row) ==
  LET value == RowValue(row.value)
      decoded == IF value.t = "text" THEN loads(value.text) ELSE value
  IN jsonify(JObj(<<"key", "value">>,
                  <<JStr(key), IF IsRaise(decoded) THEN value ELSE decoded>>), 200)

TokenNotConfigured == jsonify(ErrorBody("Golf API token not configured"), 500)

\* a provider error reported as 502 without the provider's body
UpstreamErrorResponse_502(status, text) ==
  jsonify(JObj(<<"error", "status_code">>,
               <<JStr("Golf API request failed"), JNum(status)>>),
          502)

\* app.py 216-220: the provider's status and body are passed on
UpstreamErrorResponse(status, text) ==
  jsonify(JObj(<<"error", "status_code", "details">>,
               <<JStr("Golf API request failed"), JNum(status), JText(text)>>),
          status)

\* a transport error reported without a status
TransportErrorResponse_200(details) ==
  jsonify(ErrorDetails("Failed to fetch from Golf API", JStr(details)), 200)

\* app.py 222-223: requests.exceptions.RequestException
TransportErrorResponse(details) ==
  jsonify(ErrorDetails("Failed to fetch from Golf API", JStr(details)), 500)

\* the course name for the email (app.py 203-207)
CourseName(course_id) ==
  IF \E i \in 1..Len(COURSES) : COURSES[i].courseId = course_id
    THEN COURSES[CHOOSE i \in 1..Len(COURSES) : COURSES[i].courseId = course_id].courseName
    ELSE "Unknown Course"

\* a notifier that lets the exception of the sending escape
send_course_email_Raises(configured, smtpOk) ==
  IF ~configured THEN [t |-> "return", v |-> FALSE, outcome |-> "skipped"]
  ELSE IF smtpOk THEN [t |-> "return", v |-> TRUE, outcome |-> "sent"]
  ELSE Raise("smtplib.SMTPException")

\* email_service.py 13-88: True, or False when the configuration is
\* missing or anything in the sending raised
send_course_email(configured, smtpOk) ==
  IF ~configured THEN [t |-> "return", v |-> FALSE, outcome |-> "skipped"]
  ELSE IF smtpOk THEN [t |-> "return", v |-> TRUE, outcome |-> "sent"]
  ELSE [t |-> "return", v |-> FALSE, outcome |-> "failed"]

(***************************************************************************)
(* Requests.  An action is one input/output operation of a handler (a      *)
(* database statement, the provider call, the mail) together with the      *)
(* local code that follows it; the handler's return is followed at once    *)
(* by the teardown of the application context.                             *)
(***************************************************************************)
\* teardown_appcontext (app.py 385-391): the handle that stays in conn_pool
close_db_connection(pool) ==
  IF pool # 0 /\ pool \notin closed THEN 0 ELSE pool

\* the handler returns the response and the application context ends
Finish(r, response) ==
  /\ resp' = [resp EXCEPT ![r] = response]
  /\ pc' = [pc EXCEPT ![r] = "done"]
  /\ conn_pool' = close_db_connection(conn_pool)
  /\ closed' = \* a closed handle stays only while a request still holds it
       {h \in (IF close_db_connection(conn_pool) # conn_pool
                 THEN closed \cup {conn_pool} ELSE closed) :
          \E q \in Reqs \ {r} : conn[q] = h}
  /\ conn' = [conn EXCEPT ![r] = 0]
  /\ data' = [data EXCEPT ![r] = JNull]

\* the handler goes on to its next operation
Goto(r, label) ==
  /\ pc' = [pc EXCEPT ![r] = label]
  /\ UNCHANGED <<resp, conn_pool, closed, conn, data>>

\* the identity of a new connection object: one no request holds
NewHandle ==
  CHOOSE h \in Reqs :
    /\ \A q \in Reqs : conn[q] # h
    /\ \A g \in Reqs : g < h => \E q \in Reqs : conn[q] = g

\* get_db_connection (app.py 38-51): the handle returned, or the exception
\* of psycopg2.connect
get_db_connection(r, connectOk) ==
  IF conn_pool = 0 \/ conn_pool \in closed
    THEN IF connectOk THEN [t |-> "conn", handle |-> NewHandle]
         ELSE Raise("psycopg2.OperationalError")
    ELSE [t |-> "conn", handle |-> conn_pool]

\* the handler runs up to and including get_db_connection
Connect(r, label) ==
  \E connectOk \in BOOLEAN :
    LET got == get_db_connection(r, connectOk) IN
    /\ connectOk \/ IsRaise(got)
    /\ IF IsRaise(got)
         THEN /\ Finish(r, db_error_handler(got))
              /\ log' = [log EXCEPT ![r].storeError = "connect"]
         ELSE /\ conn_pool' = got.handle
              /\ conn' = [conn EXCEPT ![r] = got.handle]
              /\ pc' = [pc EXCEPT ![r] = label]
              /\ UNCHANGED <<resp, closed, data, log>>

Request(route, course_id, key, value) ==
  [route |-> route, course_id |-> course_id, key |-> key, value |-> value]

\* requests are numbered in their order of arrival
Arrives(r) ==
  /\ pc[r] = "idle"
  /\ \A q \in Reqs : q < r => pc[q] # "idle"

\* GET /coordinates/<course_id> or GET /info/<course_id> arrives with the
\* bearer secret (the gate of require_auth is outside the model)
ArriveResolve(r) ==
  /\ Arrives(r)
  /\ \E route \in Resolvers, course_id \in Courses :
       req' = [req EXCEPT ![r] =
                 Request(route, course_id, CacheKey(route, course_id), JNull)]
  /\ Connect(r, "select")
  /\ UNCHANGED <<storeVars, envVars, normVars, mail>>

\* GET /cache/<key> arrives
ArriveCacheGet(r) ==
  /\ Arrives(r)
  /\ \E key \in GetKeys :
       req' = [req EXCEPT ![r] = Request("cache_get", "", key, JNull)]
  /\ Connect(r, "select")
  /\ UNCHANGED <<storeVars, envVars, normVars, mail>>

\* POST /cache arrives (app.py 113-126)
ArriveCachePost(r) ==
  /\ Arrives(r)
  /\ \E body \in PostedBodies :
       IF ~Truthy(body) \/ ~HasKey(body, "key") \/ ~HasKey(body, "value")
         THEN /\ req' = [req EXCEPT ![r] = Request("cache_post", "", "", JNull)]
              /\ Finish(r, jsonify(ErrorBody("Missing key or value"), 400))
              /\ UNCHANGED log
         ELSE /\ req' = [req EXCEPT ![r] =
                   Request("cache_post", "", DictGet(body, "key", JNull).s,
                           DictGet(body, "value", JNull))]
              /\ Connect(r, "insert")
  /\ UNCHANGED <<storeVars, envVars, normVars, mail>>

\* the cache read of a resolver (app.py 153-177 / 237-258)
ResolveSelect(r) ==
  /\ pc[r] = "select"
  /\ req[r].route \in Resolvers
  /\ \E envFail \in BOOLEAN :
       LET err == StoreError(r, envFail)
           rows == SelectRows(Table(req[r].route), req[r].key)
       IN IF IsRaise(err)
               THEN /\ Finish(r, db_error_handler(err))
                    /\ log' = [log EXCEPT ![r].storeError = "select"]
             ELSE IF rows # {}
               THEN \E row \in rows :
                      /\ Finish(r, db_error_handler(HitResult(req[r].route, row)))
                      /\ log' = [log EXCEPT ![r].cache = "hit", ![r].read = row.value,
                                            ![r].readAt = now]
             ELSE /\ log' = [log EXCEPT ![r].cache = "miss", ![r].readAt = now]
                  /\ IF req[r].route = "coordinates" /\ ~GOLF_API_TOKEN
                       THEN Finish(r, TokenNotConfigured)
                       ELSE Goto(r, "fetch")
  /\ UNCHANGED <<storeVars, envVars, normVars, req, mail>>

\* requests.get and the handling of its outcome up to json.dumps
\* (app.py 179-191, 215-223 / 260-272, 296-304)
ResolveFetch(r) ==
  /\ pc[r] = "fetch"
  /\ \/ \* the call fails in transport
        /\ Finish(r, TransportErrorResponse("ConnectionError"))
        /\ log' = [log EXCEPT ![r].fetches = @ + 1, ![r].fetched = "transport"]
     \/ \* the provider answers with another status than 200
        \E e \in UpstreamErrors :
          /\ Finish(r, UpstreamErrorResponse(e.status, e.text))
          /\ log' = [log EXCEPT ![r].fetches = @ + 1, ![r].fetched = "http",
                                ![r].upstream = e]
     \/ \* the provider answers 200
        \E text \in UpstreamOkBodies(req[r].route) :
          LET decoded == loads(text) IN
          IF IsRaise(decoded)
               THEN \* response.json() raises requests.exceptions.JSONDecodeError,
                    \* a RequestException
                    /\ Finish(r, TransportErrorResponse("JSONDecodeError"))
                    /\ log' = [log EXCEPT ![r].fetches = @ + 1, ![r].fetched = "badjson"]
             ELSE IF decoded.t # "obj"
               THEN \* .get('apiRequestsLeft') on a value that is not a dict
                    /\ Finish(r, db_error_handler(Raise("AttributeError")))
                    /\ log' = [log EXCEPT ![r].fetches = @ + 1, ![r].fetched = "notdict"]
             ELSE /\ data' = [data EXCEPT ![r] = decoded]
                  /\ log' = [log EXCEPT ![r].fetches = @ + 1, ![r].fetched = "ok"]
                  /\ pc' = [pc EXCEPT ![r] = "persist"]
                  /\ UNCHANGED <<resp, conn_pool, closed, conn>>
  /\ UNCHANGED <<storeVars, envVars, normVars, req, mail>>

\* a handler that goes on to the mail without the write
ResolvePersist_NoWrite(r) ==
  /\ pc[r] = "persist"
  /\ Goto(r, "notify")
  /\ UNCHANGED <<storeVars, envVars, normVars, req, mail, log>>

\* the persist write of a resolver (app.py 191-200 / 272-281)
ResolvePersist(r) ==
  /\ pc[r] = "persist"
  /\ \E envFail \in BOOLEAN :
       LET err == StoreError(r, envFail)
           value_json == dumps(data[r])
           stored == ColumnValue(value_json)
           route == req[r].route
       IN IF IsRaise(err) \/ IsRaise(stored)
               THEN /\ Finish(r, db_error_handler(IF IsRaise(err) THEN err ELSE stored))
                    /\ log' = [log EXCEPT ![r].puts = @ + 1,
                                          ![r].storeError = "write"]
                    /\ UNCHANGED storeVars
               ELSE /\ IF route = "info"
                         THEN /\ course_info_cache' =
                                   Upsert(course_info_cache, req[r].key, stored, now, FALSE)
                              /\ UNCHANGED course_poi_cache
                         ELSE /\ course_poi_cache' =
                                   Upsert(course_poi_cache, req[r].key, stored, now, FALSE)
                              /\ UNCHANGED course_info_cache
                    /\ now' = now + 1
                    /\ log' = [log EXCEPT ![r].puts = @ + 1, ![r].wroteAt = now]
                    /\ Goto(r, "notify")
  /\ UNCHANGED <<envVars, normVars, req, mail>>

\* the course-name lookup, send_course_email, and the normalized answer
\* (app.py 202-214 / 283-295)
ResolveNotify(r) ==
  /\ pc[r] = "notify"
  /\ mail' = [mail EXCEPT ![r] =
       [course_id |-> req[r].course_id,
        course_name |-> CourseName(req[r].course_id),
        course_data |-> data[r],
        data_type |-> DataType(req[r].route),
        api_requests_left |-> DictGet(data[r], "apiRequestsLeft", JNull)]]
  /\ \E configured \in BOOLEAN, smtpOk \in BOOLEAN :
       LET sent == send_course_email(configured, smtpOk)
           processed_data == Normalize(req[r].route, data[r])
       IN /\ configured \/ smtpOk
          /\ IF IsRaise(sent)
               THEN /\ Finish(r, db_error_handler(sent))
                    /\ log' = [log EXCEPT ![r].mail = "raised"]
               ELSE /\ Finish(r, db_error_handler(
                         IF IsRaise(processed_data) THEN processed_data
                         ELSE jsonify(processed_data, 200)))
                    /\ log' = [log EXCEPT ![r].mail = sent.outcome]
  /\ UNCHANGED <<storeVars, envVars, normVars, req>>

\* GET /cache/<key> (app.py 88-106)
get_cached_course_poi(r) ==
  /\ pc[r] = "select"
  /\ req[r].route = "cache_get"
  /\ \E envFail \in BOOLEAN :
       LET err == StoreError(r, envFail)
           rows == SelectRows(course_poi_cache, req[r].key)
       IN IF IsRaise(err)
               THEN /\ Finish(r, db_error_handler(err))
                    /\ log' = [log EXCEPT ![r].storeError = "select"]
             ELSE IF rows # {}
               THEN \E row \in rows :
                      /\ Finish(r, CacheGetResult(req[r].key, row))
                      /\ log' = [log EXCEPT ![r].cache = "hit", ![r].read = row.value,
                                            ![r].readAt = now]
             ELSE /\ Finish(r, jsonify(ErrorBody("Not found"), 404))
                  /\ log' = [log EXCEPT ![r].cache = "miss", ![r].readAt = now]
  /\ UNCHANGED <<storeVars, envVars, normVars, req, mail>>

\* app.py 120-124: a dict or list is serialized, a str is written as it is
PostedText(value) ==
  IF value.t \in {"obj", "list"} THEN dumps(value) ELSE value.text

\* POST /cache (app.py 117-138)
store_cached_course_poi(r) ==
  /\ pc[r] = "insert"
  /\ \E envFail \in BOOLEAN :
       LET err == StoreError(r, envFail)
           value_json == PostedText(req[r].value)
           stored == ColumnValue(value_json)
       IN IF IsRaise(err) \/ IsRaise(stored)
               THEN /\ Finish(r, db_error_handler(IF IsRaise(err) THEN err ELSE stored))
                    /\ log' = [log EXCEPT ![r].puts = @ + 1,
                                          ![r].storeError = "write"]
                    /\ UNCHANGED storeVars
               ELSE /\ course_poi_cache' =
                         Upsert(course_poi_cache, req[r].key, stored, now, TRUE)
                    /\ now' = now + 1
                    /\ log' = [log EXCEPT ![r].puts = @ + 1, ![r].wroteAt = now]
                    /\ Finish(r, jsonify(JObj(<<"success", "key">>,
                                              <<JBool(TRUE), JStr(req[r].key)>>), 201))
                    /\ UNCHANGED course_info_cache
  /\ UNCHANGED <<envVars, normVars, req, mail>>

Next ==
  \E r \in Reqs :
    \/ ArriveResolve(r)
    \/ ArriveCacheGet(r)
    \/ ArriveCachePost(r)
    \/ ResolveSelect(r)
    \/ ResolveFetch(r)
    \/ ResolvePersist(r)
    \/ ResolveNotify(r)
    \/ get_cached_course_poi(r)
    \/ store_cached_course_poi(r)

Spec == Init /\ [][Next]_vars

(***************************************************************************)
(* The normalizers on their own: a decoded payload is given to             *)
(* extract_green_centers or to extract_pars.                               *)
(***************************************************************************)
\* number of entries of a coordinates list
MaxEntries == 3

Holes == {1, 2}
Pois == {1, 2}
Locations == {1, 2, 3, 4}
EntrySpecs == [hole : Holes, poi : Pois, location : Locations]

\* the i-th item of a coordinates list; its position makes its latitude
\* and longitude
RawEntry(e, i) ==
  JObj(<<"hole", "poi", "location", "latitude", "longitude">>,
       <<JNum(e.hole), JNum(e.poi), JNum(e.location), JNum(10 + i), JNum(15 + i)>>)

\* a coordinates payload of the provider
RawCoordinates(es) ==
  JObj(<<"courseID", "coordinates">>,
       <<JStr("c1"), JList([i \in 1..Len(es) |-> RawEntry(es[i], i)])>>)

CoordinatePayloads ==
  {RawCoordinates(es) : es \in UNION {[1..n -> EntrySpecs] : n \in 0..MaxEntries}}

\* an item without a hole number
NoHoleEntry ==
  JObj(<<"poi", "location", "latitude", "longitude">>,
       <<JNum(1), JNum(2), JNum(10), JNum(20)>>)

\* other decoded values: null, objects without the expected fields, values
\* that are not objects, a null coordinates field, items that are not
\* objects or have no hole number
OtherPayloads ==
  {JNull, EmptyObj, InfoA,
   JObj(<<"courseID">>, <<JStr("c1")>>),
   JObj(<<"parsMen">>, <<JList(<<JNum(4), JNum(3)>>)>>),
   JNum(5), JStr("c1"), JStr("coordinates"), JList(<<>>),
   JList(<<JStr("coordinates")>>),
   JObj(<<"coordinates">>, <<JNull>>),
   JObj(<<"coordinates">>, <<JList(<<JNum(1)>>)>>),
   JObj(<<"coordinates">>, <<JList(<<NoHoleEntry>>)>>),
   JObj(<<"coordinates">>, <<JList(<<NoHoleEntry, GreenEntry(1, 2, 10, 20)>>)>>)}

NormInit ==
  /\ course_poi_cache = {}
  /\ course_info_cache = {}
  /\ GOLF_API_TOKEN = TRUE
  /\ now = 1
  /\ conn_pool = 0
  /\ closed = {}
  /\ pc = [r \in Reqs |-> "idle"]
  /\ req = [r \in Reqs |-> NoReq]
  /\ conn = [r \in Reqs |-> 0]
  /\ data = [r \in Reqs |-> JNull]
  /\ resp = [r \in Reqs |-> NoResp]
  /\ log = [r \in Reqs |-> NoLog]
  /\ mail = [r \in Reqs |-> NoMail]
  /\ raw_payload \in CoordinatePayloads \cup OtherPayloads
  /\ normalizer = "none"
  /\ normalized = JNull

ApplyExtractGreenCenters ==
  /\ normalizer = "none"
  /\ normalizer' = "extract_green_centers"
  /\ normalized' = extract_green_centers(raw_payload)
  /\ UNCHANGED <<raw_payload, serverVars>>

ApplyExtractPars ==
  /\ normalizer = "none"
  /\ normalizer' = "extract_pars"
  /\ normalized' = extract_pars(raw_payload)
  /\ UNCHANGED <<raw_payload, serverVars>>

NormNext == ApplyExtractGreenCenters \/ ApplyExtractPars

NormSpec == NormInit /\ [][NormNext]_vars

TypeOK ==
  /\ \A r \in Reqs :
       pc[r] \in {"idle", "select", "insert", "fetch", "persist", "notify", "done"}
  /\ now \in 1..(NumReqs + 1)
  /\ conn_pool \in 0..NumReqs

(***************************************************************************)
(* Properties.                                                             *)
(***************************************************************************)
IsResolve(r) == req[r].route \in Resolvers
Done(r) == pc[r] = "done"
TableOf(r) == TableName(req[r].route)
RowsOf(r) == SelectRows(Table(req[r].route), req[r].key)

\* the store executed a write of request q to the key of request r
WroteKeyOf(q, r) ==
  /\ log[q].wroteAt > 0
  /\ TableOf(q) = TableOf(r)
  /\ req[q].key = req[r].key

\* the payload a resolver fetched
PayloadOf(r) ==
  IF pc[r] \in {"persist", "notify"} THEN data[r] ELSE mail[r].course_data

\* the text request r gave the store to write
WrittenText(r) ==
  IF req[r].route = "cache_post" THEN PostedText(req[r].value)
  ELSE dumps(PayloadOf(r))

\* r's write is the last one the store executed for its key
LastWriter(r) ==
  /\ log[r].wroteAt > 0
  /\ \A q \in Reqs : WroteKeyOf(q, r) => log[q].wroteAt <= log[r].wroteAt

\* the answer of a resolver for a payload it fetched
AnswerFor(route, payload) ==
  db_error_handler(LET processed_data == Normalize(route, payload) IN
                   IF IsRaise(processed_data) THEN processed_data
                   ELSE jsonify(processed_data, 200))

IsErrorAnswer(response) == HasKey(response.body, "error")

\* C1: after a resolve missed, fetched and persisted, a later resolve of the
\* same course and kind whose cache read the store answers, with no other
\* write to the key in between, finds the entry, calls the provider not at
\* all and answers what the first resolve answers.
C1_SecondResolveFromCache ==
  \A r1 \in Reqs, r2 \in Reqs :
    ( /\ r1 # r2
      /\ IsResolve(r1) /\ IsResolve(r2)
      /\ req[r1].route = req[r2].route /\ req[r1].key = req[r2].key
      /\ log[r1].cache = "miss" /\ log[r1].fetched = "ok" /\ log[r1].wroteAt > 0
      /\ log[r2].readAt > log[r1].wroteAt
      /\ ~\E q \in Reqs \ {r1} :
            /\ WroteKeyOf(q, r1)
            /\ log[r1].wroteAt < log[q].wroteAt
            /\ log[q].wroteAt < log[r2].readAt )
    => /\ log[r2].cache = "hit"
       /\ log[r2].fetches = 0
       /\ Done(r2)
       /\ Done(r1) => resp[r2] = resp[r1]

C1_Witness ==
  \E r1 \in Reqs, r2 \in Reqs :
    /\ r1 # r2
    /\ req[r1].route = "coordinates" /\ req[r2].route = "coordinates"
    /\ log[r1].cache = "miss" /\ log[r1].wroteAt > 0 /\ Done(r1)
    /\ log[r2].readAt > log[r1].wroteAt /\ Done(r2)
    /\ resp[r1] = jsonify(extract_green_centers(CoordsA), 200)
    /\ resp[r2] = resp[r1]
    /\ log[r2].fetches = 0

\* C2: a miss answered by the provider with a status other than 200 ends
\* with that status, carries the provider's body unchanged, issues no write
\* and sends no mail.
C2_UpstreamStatusPassedOn ==
  \A r \in Reqs :
    (IsResolve(r) /\ log[r].fetched = "http")
    => /\ Done(r)
       /\ log[r].cache = "miss"
       /\ resp[r].status = log[r].upstream.status
       /\ DictGet(resp[r].body, "details", JNull) = JText(log[r].upstream.text)
       /\ log[r].puts = 0 /\ log[r].wroteAt = 0
       /\ log[r].mail = "none" /\ mail[r] = NoMail

C2_Witness ==
  \E r \in Reqs :
    /\ IsResolve(r) /\ log[r].fetched = "http" /\ Done(r)
    /\ resp[r].status = 429
    /\ DictGet(resp[r].body, "details", JNull) = JText(dumps(RateLimited))

\* C3: the step that notifies ends the resolve with the answer for the
\* fetched payload and leaves both tables as they are, whatever the outcome
\* of the notification (sent, failed in transport, skipped for missing
\* configuration).
C3_NotifierOutcomeAbsorbed ==
  [][\A r \in Reqs :
       (pc[r] = "notify" /\ pc'[r] # "notify")
       => /\ log'[r].mail \in {"sent", "failed", "skipped"}
          /\ resp'[r] = AnswerFor(req[r].route, data[r])
          /\ UNCHANGED <<course_poi_cache, course_info_cache>>]_vars

C3_Witness ==
  \E r \in Reqs, q \in Reqs :
    /\ IsResolve(r) /\ Done(r) /\ log[r].mail = "failed" /\ resp[r].status = 200
    /\ IsResolve(q) /\ Done(q) /\ log[q].mail = "skipped" /\ resp[q].status = 200

\* C4 (as claimed): without the provider credential a resolve that misses
\* calls the provider not at all, writes nothing, sends no mail and answers
\* 500 with an error object.
C4_NoCredentialNoFetch ==
  ~GOLF_API_TOKEN =>
    \A r \in Reqs :
      (IsResolve(r) /\ log[r].cache = "miss")
      => /\ log[r].fetches = 0
         /\ log[r].puts = 0
         /\ log[r].mail = "none"
         /\ Done(r) => (resp[r].status = 500 /\ IsErrorAnswer(resp[r]))

\* C5: a resolve that missed makes its own provider call and, when the call
\* gave a payload, issues its own write, whatever other requests do; a key
\* that was written holds exactly one row, and its value is the text of the
\* write the store executed last.
C5_EachMissFetchesLastWriteWins ==
  /\ \A r \in Reqs :
       ( /\ IsResolve(r) /\ log[r].cache = "miss"
         /\ pc[r] \in {"persist", "notify"} \/ (Done(r) /\ log[r].fetched # "none") )
       => log[r].fetches = 1
  /\ \A r \in Reqs :
       (IsResolve(r) /\ log[r].cache = "miss" /\ pc[r] = "fetch")
       => log[r].fetches = 0
  /\ \A r \in Reqs :
       (IsResolve(r) /\ log[r].fetched = "ok" /\ pc[r] \in {"notify", "done"})
       => log[r].puts = 1
  /\ \A r \in Reqs :
       LastWriter(r)
       => /\ Cardinality(RowsOf(r)) = 1
          /\ \A row \in RowsOf(r) : row.value = ColumnValue(WrittenText(r))

C5_Witness ==
  \E r1 \in Reqs, r2 \in Reqs :
    /\ r1 # r2 /\ IsResolve(r1) /\ IsResolve(r2)
    /\ req[r1].route = req[r2].route /\ req[r1].key = req[r2].key
    /\ log[r1].cache = "miss" /\ log[r2].cache = "miss"
    /\ log[r1].fetches = 1 /\ log[r2].fetches = 1
    /\ 0 < log[r1].wroteAt /\ log[r1].wroteAt < log[r2].wroteAt
    /\ Done(r1) /\ Done(r2)
    /\ PayloadOf(r1) # PayloadOf(r2)
    /\ RowsOf(r2) = {Row(req[r2].key, ColumnValue(dumps(PayloadOf(r2))), log[r1].wroteAt)}

\* C6: each table holds at most one row per key, so at most one raw payload
\* per course and kind.
C6_OneRowPerKey ==
  /\ \A a \in course_poi_cache, b \in course_poi_cache : a.key = b.key => a = b
  /\ \A a \in course_info_cache, b \in course_info_cache : a.key = b.key => a = b

C6_Witness ==
  \E r1 \in Reqs, r2 \in Reqs :
    /\ r1 # r2 /\ WroteKeyOf(r1, r2) /\ log[r2].wroteAt > 0
    /\ WrittenText(r1) # WrittenText(r2)
    /\ Cardinality(RowsOf(r2)) = 1

\* C7 (as claimed): the timestamp of a row is the time of the last write
\* the store executed for its key: every overwrite replaces it.
C7_OverwriteReplacesTimestamp ==
  \A r \in Reqs :
    LastWriter(r) => \A row \in RowsOf(r) : row.inserted_at = log[r].wroteAt

\* the value psycopg2 returns is a str that is not JSON text
IsMalformedStr(stored) ==
  /\ stored # JNull
  /\ RowValue(stored).t = "text"
  /\ IsRaise(loads(RowValue(stored).text))

C9_StoreFailureIs5xx ==
  \A r \in Reqs :
    (IsResolve(r) /\ log[r].storeError # "none")
    => /\ Done(r)
       /\ resp[r].status \in 500..599
       /\ IsErrorAnswer(resp[r])
       /\ log[r].storeError = "write"
            => (log[r].fetched = "ok" /\ log[r].mail = "none" /\ mail[r] = NoMail)

C9_Witness ==
  \E r \in Reqs, q \in Reqs :
    /\ IsResolve(r) /\ log[r].storeError = "write" /\ log[r].fetched = "ok"
    /\ Done(r) /\ resp[r].status = 500
    /\ IsResolve(q) /\ log[q].storeError = "select" /\ resp[q].status = 500

\* C10: a miss whose provider call fails in transport ends with 500 and an
\* object of error and details, issues no write and sends no mail.
C10_TransportFailureIs500 ==
  \A r \in Reqs :
    (IsResolve(r) /\ log[r].fetched = "transport")
    => /\ Done(r)
       /\ log[r].cache = "miss"
       /\ resp[r].status = 500
       /\ resp[r].body.keys = <<"error", "details">>
       /\ log[r].puts = 0 /\ log[r].wroteAt = 0
       /\ log[r].mail = "none" /\ mail[r] = NoMail

C10_Witness ==
  \E r \in Reqs :
    /\ IsResolve(r) /\ log[r].fetched = "transport" /\ Done(r)
    /\ resp[r].status = 500

\* the fields of the normalized object of a route
NormalizedKeys(route) ==
  IF route = "coordinates" THEN <<"courseID", "holes", "count">>
  ELSE <<"courseID", "parsMen", "parsWomen">>

\* C11: in a resolve the write is issued only after the provider call gave
\* a payload, the notifier is reached only after the store executed the
\* write, and there is no response before the notifier was invoked: a
\* resolve that fetched and persisted answers only after the mail.
C11_FetchPersistNotifyRespond ==
  \A r \in Reqs :
    IsResolve(r) =>
      /\ log[r].puts > 0 => (log[r].fetches = 1 /\ log[r].fetched = "ok")
      /\ (pc[r] = "notify" \/ log[r].mail # "none" \/ mail[r] # NoMail)
           => (log[r].wroteAt > 0 /\ log[r].puts = 1)
      /\ pc[r] \in {"select", "fetch", "persist", "notify"}
           => (resp[r] = NoResp /\ log[r].mail = "none" /\ mail[r] = NoMail)
      /\ (Done(r) /\ log[r].wroteAt > 0)
           => (log[r].mail # "none" /\ mail[r] # NoMail)

C11_Witness ==
  \E r \in Reqs :
    /\ IsResolve(r) /\ Done(r)
    /\ log[r].fetches = 1 /\ log[r].wroteAt > 0 /\ log[r].mail = "sent"
    /\ resp[r].status = 200

\* C12 (as claimed): a resolve that answers 200 carries the normalized
\* object of its route, and an answer whose body is an error object has
\* another status than 200.
C12_OkIsNormalizedErrorIsNotOk ==
  \A r \in Reqs :
    (IsResolve(r) /\ Done(r))
    => /\ resp[r].status = 200 => resp[r].body.keys = NormalizedKeys(req[r].route)
       /\ IsErrorAnswer(resp[r]) => resp[r].status # 200

\* the keys of the rows in which two contents of a table differ
KeysChanged(old, new) == {row.key : row \in (old \ new) \cup (new \ old)}

\* the key the resolver of a route is to use for a course
KindKey(route, course_id) ==
  IF route = "coordinates" THEN "coordinates_" \o course_id
  ELSE "info_" \o course_id

\* C13: every step of a resolve works under the key of its own kind and
\* course: a coordinates resolve leaves the info table as it is and
\* creates or changes no row but coordinates_<courseID>, an info resolve
\* leaves the coordinates table as it is and creates or changes no row
\* but info_<courseID>, what a resolve reads is the row under its own key,
\* and the two keys of a course differ.
C13_KindsKeptApart ==
  [][\A r \in Reqs :
       (IsResolve(r) /\ pc'[r] # pc[r])
       => LET own == KindKey(req[r].route, req[r].course_id) IN
          /\ req[r].key = own
          /\ KindKey("coordinates", req[r].course_id) # KindKey("info", req[r].course_id)
          /\ req[r].route = "coordinates"
               => /\ course_info_cache' = course_info_cache
                  /\ KeysChanged(course_poi_cache, course_poi_cache') \subseteq {own}
          /\ req[r].route = "info"
               => /\ course_poi_cache' = course_poi_cache
                  /\ KeysChanged(course_info_cache, course_info_cache') \subseteq {own}
          /\ log'[r].read # log[r].read
               => \E row \in Table(req[r].route) :
                    row.key = own /\ row.value = log'[r].read]_vars

C13_Witness ==
  \E r1 \in Reqs, r2 \in Reqs :
    /\ req[r1].route = "coordinates" /\ req[r2].route = "info"
    /\ log[r1].wroteAt > 0 /\ log[r2].wroteAt > 0 /\ Done(r1) /\ Done(r2)
    /\ course_poi_cache =
         {Row("coordinates_c1", ColumnValue(dumps(PayloadOf(r1))), log[r1].wroteAt)}
    /\ course_info_cache =
         {Row("info_c1", ColumnValue(dumps(PayloadOf(r2))), log[r2].wroteAt)}

\* the rows of a table keep their values from one content to the next
ValuesKept(old, new) ==
  \A a \in old, b \in new : a.key = b.key => a.value = b.value

\* C14 (as claimed): no step of a resolve changes the value stored under a
\* key that is already present.
C14_StoredValueNeverChanges ==
  [][\A r \in Reqs :
       (IsResolve(r) /\ pc'[r] # pc[r])
       => /\ ValuesKept(course_poi_cache, course_poi_cache')
          /\ ValuesKept(course_info_cache, course_info_cache')]_vars

\* C14 (amended): a resolve that finds the entry writes nothing; a resolve
\* issues a write only after a miss, so every write of a resolve comes from
\* a cache read made before any write to the key was executed: a stored
\* value is replaced only by such a concurrent miss (or a direct write).
C14_OnlyEarlierMissesOverwrite ==
  \A r \in Reqs :
    IsResolve(r) =>
      /\ log[r].cache = "hit" => (log[r].puts = 0 /\ log[r].wroteAt = 0)
      /\ log[r].puts > 0
           => /\ log[r].cache = "miss"
              /\ \A q \in Reqs : WroteKeyOf(q, r) => log[r].readAt <= log[q].wroteAt
              /\ log[r].wroteAt > 0
                   => \A row \in RowsOf(r) : log[r].readAt <= row.inserted_at

C14_Witness ==
  \E r1 \in Reqs, r2 \in Reqs :
    /\ IsResolve(r1) /\ IsResolve(r2) /\ req[r1].key = req[r2].key
    /\ log[r2].readAt <= log[r1].wroteAt /\ log[r1].wroteAt < log[r2].wroteAt
    /\ WrittenText(r1) # WrittenText(r2)
    /\ RowsOf(r2) # {}
    /\ \A row \in RowsOf(r2) : row.value = ColumnValue(WrittenText(r2))

KeysOf(table) == {row.key : row \in table}

\* C15: no step of any request (resolve, direct read, direct write, with
\* whatever outcome) removes a key from a table.
C15_NoEntryRemoved ==
  [][/\ KeysOf(course_poi_cache) \subseteq KeysOf(course_poi_cache')
     /\ KeysOf(course_info_cache) \subseteq KeysOf(course_info_cache')]_vars

C15_Witness ==
  \E r \in Reqs, q \in Reqs :
    /\ r # q /\ log[r].wroteAt > 0 /\ Done(r)
    /\ req[q].key = req[r].key /\ TableOf(q) = TableOf(r)
    /\ Done(q) /\ resp[q].status >= 400
    /\ log[q].puts = 1 /\ log[q].storeError = "write"
    /\ RowsOf(r) # {}

\* C16 (as claimed): extract_pars returns an error object for null, the
\* object of empty defaults for {}, and for every object its courseID,
\* parsMen and parsWomen, each defaulted to empty when absent.
C16_ExtractParsDefaults ==
  normalizer = "extract_pars" =>
    /\ raw_payload = JNull => normalized = InvalidInfoData
    /\ raw_payload = EmptyObj
         => normalized = JObj(<<"courseID", "parsMen", "parsWomen">>,
                              <<JStr(""), JList(<<>>), JList(<<>>)>>)
    /\ raw_payload.t = "obj"
         => normalized = JObj(<<"courseID", "parsMen", "parsWomen">>,
                              <<DictGet(raw_payload, "courseID", JStr("")),
                                DictGet(raw_payload, "parsMen", JList(<<>>)),
                                DictGet(raw_payload, "parsWomen", JList(<<>>))>>)

\* a payload of the shape of the data model: an object with a coordinates
\* list whose items are objects with an integer hole number
IsRawCoordinates(v) ==
  /\ v.t = "obj"
  /\ HasKey(v, "coordinates")
  /\ DictGet(v, "coordinates", JNull).t = "list"
  /\ \A i \in 1..Len(DictGet(v, "coordinates", JNull).items) :
       LET item == DictGet(v, "coordinates", JNull).items[i] IN
       /\ item.t = "obj"
       /\ DictGet(item, "hole", JNull).t = "num"

\* the positions of the green entries of a coordinates list
GreenPositions(items) ==
  {i \in 1..Len(items) :
     /\ DictGet(items[i], "poi", JNull) = JNum(1)
     /\ DictGet(items[i], "location", JNull) \in {JNum(1), JNum(2), JNum(3)}}

\* C17: for a coordinates payload, extract_green_centers returns holes
\* whose hole numbers are exactly the hole numbers of the green entries
\* (poi 1, location 1, 2 or 3), in strictly ascending order (so each once),
\* and count is the length of holes.
C17_HolesSortedAndCounted ==
  (normalizer = "extract_green_centers" /\ IsRawCoordinates(raw_payload))
  => /\ normalized.t = "obj"
     /\ normalized.t = "obj" =>
          LET items == DictGet(raw_payload, "coordinates", JNull).items
              holes == DictGet(normalized, "holes", JNull)
          IN /\ holes.t = "list"
             /\ {DictGet(holes.items[j], "holeNumber", JNull) : j \in 1..Len(holes.items)}
                  = {DictGet(items[i], "hole", JNull) : i \in GreenPositions(items)}
             /\ \A j \in 1..(Len(holes.items) - 1) :
                  DictGet(holes.items[j], "holeNumber", JNull).n
                    < DictGet(holes.items[j + 1], "holeNumber", JNull).n
             /\ DictGet(normalized, "count", JNull) = JNum(Len(holes.items))

C17_Witness ==
  /\ normalizer = "extract_green_centers"
  /\ IsRawCoordinates(raw_payload)
  /\ LET items == DictGet(raw_payload, "coordinates", JNull).items IN
     /\ Len(items) = 3
     /\ GreenPositions(items) = {1, 3}
     /\ DictGet(items[1], "hole", JNull) = JNum(2)
     /\ DictGet(items[3], "hole", JNull) = JNum(1)
  /\ DictGet(normalized, "count", JNull) = JNum(2)

\* the positions of the green entries of one hole and one location
SameHoleLocation(items, hole_number, location) ==
  {i \in GreenPositions(items) :
     /\ DictGet(items[i], "hole", JNull) = hole_number
     /\ DictGet(items[i], "location", JNull) = location}

LastOf(S) == CHOOSE i \in S : \A k \in S : k <= i

\* C18: for a coordinates payload, the front/center/back field of every
\* hole that extract_green_centers returns carries the latitude and
\* longitude of the last green entry of that hole and that location in
\* list order, and is absent when there is no such entry.
C18_LastDuplicateWins ==
  (normalizer = "extract_green_centers" /\ IsRawCoordinates(raw_payload)
     /\ normalized.t = "obj")
  => LET items == DictGet(raw_payload, "coordinates", JNull).items
         holes == DictGet(normalized, "holes", JNull).items
     IN \A j \in 1..Len(holes) : \A location \in {JNum(1), JNum(2), JNum(3)} :
          LET S == SameHoleLocation(items, DictGet(holes[j], "holeNumber", JNull), location)
          IN IF S = {}
               THEN ~HasKey(holes[j], GreenField(location))
               ELSE DictGet(holes[j], GreenField(location), JNull)
                      = JObj(<<"latitude", "longitude">>,
                             <<DictGet(items[LastOf(S)], "latitude", JNull),
                               DictGet(items[LastOf(S)], "longitude", JNull)>>)

C18_Witness ==
  /\ normalizer = "extract_green_centers"
  /\ IsRawCoordinates(raw_payload)
  /\ LET items == DictGet(raw_payload, "coordinates", JNull).items IN
     /\ Len(items) = 3
     /\ SameHoleLocation(items, JNum(1), JNum(2)) = {1, 3}
     /\ DictGet(items[1], "latitude", JNull) # DictGet(items[3], "latitude", JNull)
     /\ normalized.t = "obj"
     /\ \E j \in 1..Len(DictGet(normalized, "holes", JNull).items) :
          LET h == DictGet(normalized, "holes", JNull).items[j] IN
          /\ DictGet(h, "holeNumber", JNull) = JNum(1)
          /\ DictGet(DictGet(h, "centerOfGreen", JNull), "latitude", JNull)
               = DictGet(items[3], "latitude", JNull)

\* C19: extract_green_centers and extract_pars return a result for every
\* decoded payload and never raise: a payload without a coordinates field,
\* a null coordinates field, entries without a hole number, and values
\* that are not objects included.
C19_ExtractorsNeverRaise ==
  normalizer # "none" => ~IsRaise(normalized)

\* send_course_email was called for request r
Notified(r) == mail[r] # NoMail

\* C20 (as claimed): a resolve that has returned called the notifier once
\* exactly when it made an upstream call, and never on a cache hit.
C20_NotifiedOncePerUpstreamCall ==
  \A r \in Reqs :
    (IsResolve(r) /\ Done(r))
    => /\ Notified(r) <=> log[r].fetches = 1
       /\ log[r].cache = "hit" => ~Notified(r)

\* C20 (amended): the notifier is called only by a resolve whose cache
\* read missed, whose one upstream call answered 200 with an object and
\* whose persist write succeeded; it is called at most once per request,
\* with the course id and name, the payload that call returned, the kind
\* label of the route and the payload's apiRequestsLeft; a resolve that
\* got as far as the notification does not return without it; and a
\* request that hit the cache never calls it.
C20_NotifiedOncePerStoredPayload ==
  [][\A r \in Reqs :
       /\ mail'[r] # mail[r]
            => /\ IsResolve(r) /\ pc[r] = "notify" /\ ~Notified(r)
               /\ log[r].cache = "miss"
               /\ log[r].fetches = 1 /\ log[r].fetched = "ok"
               /\ log[r].wroteAt > 0
               /\ mail'[r] =
                    [course_id |-> req[r].course_id,
                     course_name |-> "Pebble",
                     course_data |-> data[r],
                     data_type |-> IF req[r].route = "coordinates"
                                     THEN "POI" ELSE "Info",
                     api_requests_left |-> DictGet(data[r], "apiRequestsLeft", JNull)]
       /\ (pc[r] = "notify" /\ pc'[r] # "notify") => Notified(r)'
       /\ (pc[r] = "fetch" /\ pc'[r] = "persist")
            => data'[r] \in {loads(text) : text \in UpstreamOkBodies(req[r].route)}
       /\ (pc[r] = "persist" /\ pc'[r] = "notify") => data'[r] = data[r]
       /\ log'[r].cache = "hit" => ~Notified(r)']_vars

C20_Witness ==
  \E r \in Reqs, q \in Reqs :
    /\ IsResolve(r) /\ Done(r) /\ log[r].cache = "miss" /\ Notified(r)
    /\ mail[r].data_type = "POI" /\ mail[r].course_data = CoordsA
    /\ mail[r].api_requests_left # JNull
    /\ IsResolve(q) /\ Done(q) /\ log[q].cache = "hit" /\ ~Notified(q)

\* request r holds a handle and still has a store operation ahead of it
\* (the cache read, or the write that follows the provider call)
HasStoreOperationAhead(r) ==
  /\ conn[r] # 0
  /\ pc[r] \in {"select", "fetch", "persist"}

\* C21: the handle a request got from get_db_connection is open, and is
\* still the process-wide handle, at every store operation of that
\* request: no other request's teardown closes or discards it while the
\* request is between its cache read and its persist write.
C21_HandleStaysOpen ==
  \A r \in Reqs :
    HasStoreOperationAhead(r)
    => /\ conn[r] \notin closed
       /\ conn_pool = conn[r]

====
